---- MODULE Spec2Model ----
(***************************************************************************)
(* Model of portly's front end (src/src/main.ts): the local ports page,    *)
(* the device list of the network tab, and the three ping monitors of the  *)
(* network tab and the monitor page.                                       *)
(*                                                                         *)
(*   scanPorts / scanGrouped / renderTable       local ports page          *)
(*   discoverDevices / manual add / selectDevice device list               *)
(*                                                                         *)
(*   runPing / doPing / stopPingMonitor          single-target ping        *)
(*   runMultiPing / doPingAll / stopMultiPing    multi-device spectrum     *)
(*   startMonitor / doPingBatch / stopMonitor    device-grid monitor       *)
(*                                                                         *)
(* The program runs on the browser's event loop: one step of the model is  *)
(* one macrotask (a click, an interval timer firing, the reply of an       *)
(* invoke() call) together with every microtask it triggers (the code      *)
(* after an await whose promise that macrotask settled).                   *)
(***************************************************************************)
EXTENDS Integers, Sequences, FiniteSets, TLC

VARIABLES
    discoveredDevices,   \* let discoveredDevices: NetworkDevice[] (the ips, in order)
    scanBusy,            \* scanDevicesBtn.disabled: a discoverDevices() call is awaiting
    selectedDevice,      \* let selectedDevice: NetworkDevice | null (its ip)
    resolving,           \* manual-add handlers awaiting tauri_resolve_target
    addLog,              \* ghost: per manual add that resolved, its ip and `exists`
    portResultsUi,       \* what portResults.innerHTML holds: "none", "ping" or "multi"
    heap,                \* the DevicePingData / MonitorDevice objects ever created
    histSeq,             \* ghost: per object, the seq of the probe behind each history entry
    pingMonitorInterval, \* let pingMonitorInterval: number | null
    pingHistory,         \* let pingHistory: { time, ms }[] (the ms)
    pingHistSeq,         \* ghost: the run and seq of the probe behind each pingHistory entry
    pingRuns,            \* per runPing() call, its locals ip, sent, received, times
    multiPingInterval,   \* let multiPingInterval: number | null
    multiPingDevices,    \* let multiPingDevices: Map<string, DevicePingData>
    monitorInterval,     \* let monitorInterval: number | null
    monitorDevices,      \* let monitorDevices: Map<string, MonitorDevice>
    startBtnShown,       \* startMonitorBtn is displayed (and stopMonitorBtn is not)
    monDiscover,         \* startMonitor() calls awaiting tauri_discover_devices
    timers,              \* the interval timers of the window that are active
    cycles,              \* the doPing / doPingAll / doPingBatch calls that are awaiting
    inflight,            \* the invoke("tauri_ping_one") calls that have not settled
    stopped,             \* ghost: per monitor, stop was called and start not since
    done,                \* ghost: the cycle that ended last (completed or aborted)
    isLoading,           \* let isLoading
    currentView,         \* let currentView: "table" | "group"
    sourceFilter,        \* let sourceFilter: "all" | "local" | "docker"
    cachedDockerPorts,   \* let cachedDockerPorts: Map<number, string>
    appFilter,           \* appFilter.value
    portFilter,          \* portFilter.value
    excludeSystem,       \* excludeSystem.checked
    showCommand,         \* showCommand.checked
    filterTimeout,       \* the timeout of debouncedScan is pending
    portScan,            \* the scanPorts() / scanGrouped() call that is awaiting
    portTable,           \* what renderTable() put into port-tbody
    groupView,           \* what renderGroups() put into group-view
    scanLog,             \* ghost: the last two scanPorts() calls that ended
    left                 \* what the behaviour has left of the bounds of the model

netVars   == <<discoveredDevices, scanBusy, selectedDevice, resolving, addLog>>
pingVars  == <<pingMonitorInterval, pingHistory, pingHistSeq, pingRuns>>
multiVars == <<multiPingInterval, multiPingDevices>>
monVars   == <<monitorInterval, monitorDevices, startBtnShown, monDiscover>>
portVars  == <<isLoading, currentView, sourceFilter, cachedDockerPorts, appFilter,
               portFilter, excludeSystem, showCommand, filterTimeout, portScan,
               portTable, groupView, scanLog>>

vars == <<netVars, portResultsUi, heap, histSeq, pingVars, multiVars, monVars,
          timers, cycles, inflight, stopped, done, portVars, left>>

----------------------------------------------------------------------------
(* Bounds of the model.                                                    *)

\* start invocations of a monitor explored per behaviour
MaxStarts == 2
\* doPing() calls explored per behaviour
MaxPingCycles == 4
\* doPingAll() calls explored per behaviour
MaxMultiCycles == 3
\* doPingBatch() calls explored per behaviour
MaxMonitorCycles == 2
\* probes per behaviour that settle otherwise than with a positive latency
MaxFaults == 2
\* discoverDevices() calls explored per behaviour
MaxScans == 1
\* clicks on add-manual-target explored per behaviour
MaxAdds == 2
\* scanPorts() / scanGrouped() calls that pass isLoading, per behaviour
MaxPortScans == 3
\* changes of a setting of the local ports page explored per behaviour
MaxEdits == 2

----------------------------------------------------------------------------
(* JavaScript values.                                                      *)

\* null (a timer handle that is null is modelled as 0: handles are positive)
Null == -1
\* undefined (a missing optional field)
Undefined == -2

\* The devices tauri_discover_devices reports on the network tab.
LanDevices == <<"10.0.0.2", "10.0.0.3">>

\* The round-trip times a reply can carry.
Latencies == {0, 12}

\* PingOneResult, as far as the monitors read it, and a rejected invoke().
Reply(success, time_ms) == [thrown |-> FALSE, success |-> success, time_ms |-> time_ms]
Thrown == [thrown |-> TRUE, success |-> FALSE, time_ms |-> Undefined]
Outcomes == {Reply(TRUE, t) : t \in Latencies} \cup {Reply(FALSE, Undefined), Thrown}

\* result.success && result.time_ms, as a condition: 0 and undefined are falsy.
Truthy(result) == result.success /\ result.time_ms # Undefined /\ result.time_ms # 0

----------------------------------------------------------------------------
(* Map<string, T>: entries in insertion order.                             *)

MapKeys(m) == [i \in 1..Len(m) |-> m[i].key]
MapHas(m, k) == \E i \in 1..Len(m) : m[i].key = k
MapGet(m, k) == m[CHOOSE i \in 1..Len(m) : m[i].key = k].val
MapSet(m, k, v) ==
    IF MapHas(m, k)
    THEN [i \in 1..Len(m) |-> IF m[i].key = k THEN [key |-> k, val |-> v] ELSE m[i]]
    ELSE Append(m, [key |-> k, val |-> v])

Range(s) == {s[i] : i \in 1..Len(s)}

----------------------------------------------------------------------------
(* The per-device record and what one probe outcome does to it.            *)

\* { ip, history: [], lastMs: null, sent: 0, received: 0 }; evicted is a ghost
\* field counting the shift() calls on history.
NewData(ip) ==
    [ip |-> ip, history |-> <<>>, lastMs |-> Null, sent |-> 0, received |-> 0,
     evicted |-> 0]

\* if (history.length > 60) history.shift()
ShiftOver60(data) ==
    IF Len(data.history) > 60
    THEN [data EXCEPT !.history = Tail(@), !.evicted = @ + 1]
    ELSE data

\* RecordAll without its data.sent++
RecordAllNoSent(data, result) ==
    LET d2 == IF Truthy(result)
              THEN [data EXCEPT !.received = @ + 1,
                                !.lastMs = result.time_ms,
                                !.history = Append(@, result.time_ms)]
              ELSE [data EXCEPT !.lastMs = Null,
                                !.history = Append(@, Null)]
    IN  ShiftOver60(d2)

\* doPingAll, after the await returned a result
RecordAll(data, result) ==
    LET d1 == [data EXCEPT !.sent = @ + 1]
        d2 == IF Truthy(result)
              THEN [d1 EXCEPT !.received = @ + 1,
                              !.lastMs = result.time_ms,
                              !.history = Append(@, result.time_ms)]
              ELSE [d1 EXCEPT !.lastMs = Null,
                              !.history = Append(@, Null)]
    IN  ShiftOver60(d2)

\* doPingAll, catch { data.history.push(null) }
CatchAll(data) == [data EXCEPT !.history = Append(@, Null)]

\* The body of the async arrow of doPingAll once invoke() has settled.
SettleAll(data, outcome) ==
    IF outcome.thrown THEN CatchAll(data) ELSE RecordAll(data, outcome)

\* the async arrow of doPingAll without its try/catch
TaskRejectsAllUncaught(outcome) == outcome.thrown

\* Whether the async arrow of doPingAll rejects: its try/catch absorbs a
\* rejected invoke(), so Promise.all never sees a rejection.
TaskRejectsAll(outcome) == FALSE

\* doPingBatch, after the await returned a result
RecordBatch(data, result) ==
    LET d1 == [data EXCEPT !.sent = @ + 1]
        d2 == IF Truthy(result)
              THEN [d1 EXCEPT !.received = @ + 1,
                              !.lastMs = result.time_ms,
                              !.history = Append(@, result.time_ms)]
              ELSE [d1 EXCEPT !.lastMs = Null,
                              !.history = Append(@, Null)]
    IN  ShiftOver60(d2)

\* doPingBatch, catch { data.history.push(null) }
CatchBatch(data) == [data EXCEPT !.history = Append(@, Null)]

\* The body of the async arrow of doPingBatch once invoke() has settled.
SettleBatch(data, outcome) ==
    IF outcome.thrown THEN CatchBatch(data) ELSE RecordBatch(data, outcome)

\* Whether the async arrow of doPingBatch rejects on a rejected invoke():
\* its try/catch absorbs it.
TaskRejectsBatch(outcome) == FALSE

\* doPing, after the await returned a result; st holds the locals sent,
\* received and times of the runPing() call and the global pingHistory
\* (evicted: ghost, the shift() calls on pingHistory)
RecordPing(st, result) ==
    LET d1 == [st EXCEPT !.sent = @ + 1]
        d2 == IF Truthy(result)
              THEN [d1 EXCEPT !.received = @ + 1,
                              !.times = Append(@, result.time_ms),
                              !.history = Append(@, result.time_ms)]
              ELSE [d1 EXCEPT !.history = Append(@, Null)]
        d3 == IF Len(d2.history) > 60
              THEN [d2 EXCEPT !.history = Tail(@), !.evicted = @ + 1]
              ELSE d2
    IN  IF Len(d3.times) > 60 THEN [d3 EXCEPT !.times = Tail(@)] ELSE d3

\* doPing, catch (error) { console.error(...) }
CatchPing(st) == st

\* The body of doPing once invoke() has settled.
SettlePing(st, outcome) ==
    IF outcome.thrown THEN CatchPing(st) ELSE RecordPing(st, outcome)

\* lossRate of doPing and loss of the legend of renderSpectrumChart:
\* (sent - received) / sent * 100 to one decimal, here in tenths of a percent
LossRate(sent, received) ==
    IF sent > 0 THEN ((sent - received) * 2000 + sent) \div (2 * sent) ELSE 0

RECURSIVE SumOf(_)
\* times.reduce((a, b) => a + b, 0)
SumOf(times) == IF times = <<>> THEN 0 ELSE Head(times) + SumOf(Tail(times))

\* avgMs of doPing as ping-avg shows it, avgMs.toFixed(1): tenths of a
\* millisecond, 0 when times is empty
AvgMs(times) ==
    IF Len(times) > 0 THEN (SumOf(times) * 20 + Len(times)) \div (2 * Len(times))
    ELSE 0

\* Samples ever pushed onto a history.
Pushed(data) == Len(data.history) + data.evicted

\* ghost: the seq list that follows a history from `old` to `new`
FollowSeq(seqs, old, new, seq) ==
    LET pushed == IF Pushed(new) > Pushed(old) THEN Append(seqs, seq) ELSE seqs
    IN  IF new.evicted > old.evicted THEN Tail(pushed) ELSE pushed

----------------------------------------------------------------------------
(* Timers, cycles and probes: the bookkeeping the three monitors share.    *)

Monitors == {"ping", "multi", "monitor"}

\* The smallest positive number not in S: a handle or number not in use.
Fresh(S) == CHOOSE i \in 1..(Cardinality(S) + 1) :
                i \notin S /\ \A j \in 1..(i - 1) : j \in S

\* window.setInterval(f, ms): a new handle, the timer active; run is the
\* runPing() call whose doPing the timer calls (0 for the other monitors).
NewTimer(mon, run) == [id |-> Fresh({t.id : t \in timers}), mon |-> mon, run |-> run]

\* clearInterval(handle)
ClearInterval(handle) == {t \in timers : t.id # handle}

\* One call of doPing / doPingAll / doPingBatch: the keys it captured, the
\* index of its current batch, the probes of that batch its Promise.all still
\* waits for.  probed, appended and failed are ghosts: per key, the probes
\* dispatched and the samples pushed, and the keys whose probe failed.
NewCycle(mon, run, first, keys) ==
    [id |-> Fresh(DOMAIN cycles \cup {p.cycle : p \in inflight}),
     mon |-> mon, run |-> run, first |-> first, keys |-> keys,
     idx |-> 1, pending |-> {},
     probed |-> [k \in {keys[i] : i \in 1..Len(keys)} |-> 0],
     appended |-> [k \in {keys[i] : i \in 1..Len(keys)} |-> 0],
     failed |-> {}]

\* invoke("tauri_ping_one", { ip, seq }) of cycle c, writing to object obj
Probe(c, ip, obj, seq) ==
    [cycle |-> c.id, mon |-> c.mon, run |-> c.run, ip |-> ip, obj |-> obj, seq |-> seq]

\* ghost: how a cycle ended; cause is "none" when it completed, "probe" when
\* a rejected probe aborted it, "nodata" when a key it captured had no record
Ended(c, cause, rendered) ==
    [mon |-> c.mon, first |-> c.first, keys |-> c.keys,
     probed |-> c.probed, appended |-> c.appended, failed |-> c.failed,
     cause |-> cause, rendered |-> rendered]

Without(f, k) == [x \in DOMAIN f \ {k} |-> f[x]]

ProbeFailed(outcome) == outcome.thrown \/ ~outcome.success

\* A probe outcome that draws on MaxFaults.
Fault(outcome) == ~Truthy(outcome)

\* ghost: the cycle after its probe p settled with `outcome` and pushed n samples
AfterSettle(c, p, outcome, n) ==
    [c EXCEPT !.pending = @ \ {p.ip},
              !.appended[p.ip] = @ + n,
              !.failed = IF ProbeFailed(outcome) THEN @ \cup {p.ip} ELSE @]

CyclesOf(mon) == {id \in DOMAIN cycles : cycles[id].mon = mon}
TimersOf(mon) == {t \in timers : t.mon = mon}
InFlightOf(mon) == {p \in inflight : p.mon = mon}

SpendFault(outcome) ==
    IF Fault(outcome) THEN [left EXCEPT !.faults = @ - 1] ELSE left

----------------------------------------------------------------------------
(* Network tab: device discovery and selection.                            *)

\* What tauri_discover_devices can report.
ScanResults == {LanDevices}

\* selectedDevice = null
NoDevice == "null"

\* discoverDevices(), up to its await
DiscoverDevices ==
    /\ ~scanBusy
    /\ left.scans > 0
    /\ scanBusy' = TRUE
    /\ left' = [left EXCEPT !.scans = @ - 1]
    /\ UNCHANGED <<portVars, discoveredDevices, selectedDevice, resolving, addLog,
                   portResultsUi, heap, histSeq,
                   pingVars, multiVars, monVars, timers, cycles, inflight,
                   stopped, done>>

\* discoverDevices(), after its await returned
DiscoverDevicesReturn ==
    /\ scanBusy
    /\ \E result \in ScanResults : discoveredDevices' = result
    /\ scanBusy' = FALSE
    /\ UNCHANGED <<portVars, selectedDevice, resolving, addLog, portResultsUi, heap,
                   histSeq, pingVars,
                   multiVars, monVars, timers, cycles, inflight, stopped, done,
                   left>>

\* discoverDevices(), after its await threw
DiscoverDevicesFail ==
    /\ scanBusy
    /\ scanBusy' = FALSE
    /\ UNCHANGED <<portVars, discoveredDevices, selectedDevice, resolving, addLog,
                   portResultsUi, heap, histSeq,
                   pingVars, multiVars, monVars, timers, cycles, inflight,
                   stopped, done, left>>

\* selectDevice(device): a click on an item of the device list
SelectDevice ==
    /\ \E i \in 1..Len(discoveredDevices) : selectedDevice' = discoveredDevices[i]
    /\ portResultsUi' = "none"
    /\ UNCHANGED <<portVars, discoveredDevices, scanBusy, resolving, addLog, heap, histSeq,
                   pingVars, multiVars,
                   monVars, timers, cycles, inflight, stopped, done, left>>

\* What tauri_resolve_target can resolve a typed target to: the address of a
\* device the scan reports, or an address outside the scanned subnet.
ResolvedIps == {"10.0.0.3", "10.0.0.9"}

\* click on add-manual-target with a non-empty input, up to its await
AddManualTarget ==
    /\ left.adds > 0
    /\ resolving' = resolving + 1
    /\ left' = [left EXCEPT !.adds = @ - 1]
    /\ UNCHANGED <<portVars, discoveredDevices, scanBusy, selectedDevice, addLog, portResultsUi,
                   heap, histSeq, pingVars, multiVars, monVars, timers, cycles,
                   inflight, stopped, done>>

\* a mutation of PushIfAbsent: the device is pushed without the test
PushAlways(devices, ip) == Append(devices, ip)

\* const exists = discoveredDevices.some(d => d.ip === device.ip);
\* if (!exists) discoveredDevices.push(device)
PushIfAbsent(devices, ip) ==
    IF \E i \in 1..Len(devices) : devices[i] = ip THEN devices ELSE Append(devices, ip)

\* the manual-add handler after tauri_resolve_target returned `ip`: the device
\* is pushed when absent, the list rendered, and selectDevice(device) called
AddManualTargetReturn ==
    /\ resolving > 0
    /\ \E ip \in ResolvedIps :
          /\ discoveredDevices' = PushIfAbsent(discoveredDevices, ip)
          /\ addLog' = Append(addLog,
                [ip |-> ip, exists |-> \E i \in 1..Len(discoveredDevices) : discoveredDevices[i] = ip])
          /\ selectedDevice' = ip
    /\ resolving' = resolving - 1
    /\ portResultsUi' = "none"
    /\ UNCHANGED <<portVars, scanBusy, heap, histSeq, pingVars, multiVars, monVars, timers,
                   cycles, inflight, stopped, done, left>>

\* a mutation of AddManualTargetFail: the selection is dropped on failure
AddManualTargetFailDeselects ==
    /\ resolving > 0
    /\ resolving' = resolving - 1
    /\ selectedDevice' = NoDevice
    /\ UNCHANGED <<portVars, discoveredDevices, scanBusy, addLog, portResultsUi,
                   heap, histSeq, pingVars, multiVars, monVars, timers, cycles,
                   inflight, stopped, done, left>>

\* the manual-add handler after tauri_resolve_target rejected: alert(...)
AddManualTargetFail ==
    /\ resolving > 0
    /\ resolving' = resolving - 1
    /\ UNCHANGED <<portVars, discoveredDevices, scanBusy, selectedDevice, addLog, portResultsUi,
                   heap, histSeq, pingVars, multiVars, monVars, timers, cycles,
                   inflight, stopped, done, left>>

----------------------------------------------------------------------------
(* Multi-device spectrum monitor.                                          *)

\* doPingAll(): every key of the map is probed at once, seq: data.sent
\* read at dispatch
DoPingAll(first, map, objs) ==
    LET keys == MapKeys(map)
        c0   == NewCycle("multi", 0, first, keys)
        c    == [c0 EXCEPT !.pending = Range(keys),
                           !.probed = [k \in Range(keys) |-> 1]]
    IN  /\ cycles' = (c.id :> c) @@ cycles
        /\ inflight' = inflight \cup
              {Probe(c, k, MapGet(map, k), objs[MapGet(map, k)].sent) : k \in Range(keys)}

\* stopMultiPing()
StopMultiPingBody ==
    /\ timers' = IF multiPingInterval # 0 THEN ClearInterval(multiPingInterval) ELSE timers
    /\ multiPingInterval' = 0
    /\ stopped' = [stopped EXCEPT !["multi"] = TRUE]

\* click on stop-multi-btn
StopMultiPing ==
    /\ portResultsUi = "multi"
    /\ StopMultiPingBody
    /\ UNCHANGED <<portVars, netVars, portResultsUi, heap, histSeq, pingVars, multiPingDevices,
                   monVars, cycles, inflight, done, left>>

\* runMultiPing() while multiPingInterval is set: it stops the monitor
RunMultiPingToggle ==
    /\ multiPingInterval # 0
    /\ StopMultiPingBody
    /\ UNCHANGED <<portVars, netVars, portResultsUi, heap, histSeq, pingVars, multiPingDevices,
                   monVars, cycles, inflight, done, left>>

\* runMultiPing() with no device discovered: portResults shows a hint
RunMultiPingNoDevices ==
    /\ multiPingInterval = 0
    /\ discoveredDevices = <<>>
    /\ portResultsUi' = "none"
    /\ UNCHANGED <<portVars, netVars, heap, histSeq, pingVars, multiVars, monVars, timers,
                   cycles, inflight, stopped, done, left>>

\* multiPingDevices.clear(), then one fresh record per discovered device
FreshMultiMap ==
    [i \in 1..Len(discoveredDevices) |->
        [key |-> discoveredDevices[i], val |-> Len(heap) + i]]

\* runMultiPing(), up to the await of its first doPingAll()
RunMultiPingStart ==
    /\ multiPingInterval = 0
    /\ discoveredDevices # <<>>
    /\ left.starts["multi"] > 0
    /\ left.cycles["multi"] > 0
    /\ multiPingDevices' = FreshMultiMap
    /\ heap' = heap \o [i \in 1..Len(discoveredDevices) |-> NewData(discoveredDevices[i])]
    /\ histSeq' = histSeq \o [i \in 1..Len(discoveredDevices) |-> <<>>]
    /\ portResultsUi' = "multi"
    /\ DoPingAll(TRUE, multiPingDevices', heap')
    /\ stopped' = [stopped EXCEPT !["multi"] = FALSE]
    /\ left' = [left EXCEPT !.starts["multi"] = @ - 1, !.cycles["multi"] = @ - 1]
    /\ UNCHANGED <<portVars, netVars, pingVars, multiPingInterval, monVars, timers, done>>

\* the interval timer of runMultiPing fires: doPingAll()
MultiTick ==
    /\ TimersOf("multi") # {}
    /\ left.cycles["multi"] > 0
    /\ DoPingAll(FALSE, multiPingDevices, heap)
    /\ left' = [left EXCEPT !.cycles["multi"] = @ - 1]
    /\ UNCHANGED <<portVars, netVars, portResultsUi, heap, histSeq, pingVars, multiVars,
                   monVars, timers, stopped, done>>

\* one invoke("tauri_ping_one") of doPingAll settles; when it is the last of
\* its cycle, Promise.all resolves, renderSpectrumChart() runs and, for the
\* first cycle, runMultiPing goes on to setInterval(doPingAll, 1000)
MultiPingSettle(p, outcome) ==
    LET old == heap[p.obj]
        new == SettleAll(old, outcome)
    IN  /\ heap' = [heap EXCEPT ![p.obj] = new]
        /\ histSeq' = [histSeq EXCEPT ![p.obj] = FollowSeq(@, old, new, p.seq)]
        /\ inflight' = inflight \ {p}
        /\ IF p.cycle \notin DOMAIN cycles
           THEN UNCHANGED <<cycles, done, timers, multiPingInterval>>
           ELSE LET c == AfterSettle(cycles[p.cycle], p, outcome, Pushed(new) - Pushed(old))
                IN  /\ cycles' = IF TaskRejectsAll(outcome) \/ c.pending = {}
                                 THEN Without(cycles, c.id)
                                 ELSE [cycles EXCEPT ![c.id] = c]
                    /\ done' = IF TaskRejectsAll(outcome)
                               THEN <<Ended(c, "probe", FALSE)>>
                               ELSE IF c.pending = {}
                                    THEN <<Ended(c, "none", TRUE)>>
                                    ELSE done
                    /\ IF ~TaskRejectsAll(outcome) /\ c.pending = {} /\ c.first
                       THEN /\ timers' = timers \cup {NewTimer("multi", 0)}
                            /\ multiPingInterval' = NewTimer("multi", 0).id
                       ELSE UNCHANGED <<timers, multiPingInterval>>
        /\ left' = SpendFault(outcome)
        /\ UNCHANGED <<portVars, netVars, portResultsUi, pingVars, multiPingDevices, monVars,
                       stopped>>

MultiPingReturn ==
    \E p \in InFlightOf("multi") : \E outcome \in Outcomes :
        /\ Fault(outcome) => left.faults > 0
        /\ MultiPingSettle(p, outcome)

----------------------------------------------------------------------------
(* Single-target ping.                                                     *)

\* doPing() of the runPing() call `run`: seq: sent read at dispatch
DoPing(first, run, runs) ==
    LET c0 == NewCycle("ping", run, first, <<runs[run].ip>>)
        c  == [c0 EXCEPT !.pending = {runs[run].ip},
                         !.probed = [k \in {runs[run].ip} |-> 1]]
    IN  /\ cycles' = (c.id :> c) @@ cycles
        /\ inflight' = inflight \cup {Probe(c, runs[run].ip, 0, runs[run].sent)}

\* stopPingMonitor()
StopPingMonitorBody ==
    /\ timers' = IF pingMonitorInterval # 0 THEN ClearInterval(pingMonitorInterval) ELSE timers
    /\ pingMonitorInterval' = 0
    /\ stopped' = [stopped EXCEPT !["ping"] = TRUE]

\* click on stop-ping-btn
StopPingMonitor ==
    /\ portResultsUi = "ping"
    /\ StopPingMonitorBody
    /\ UNCHANGED <<portVars, netVars, portResultsUi, heap, histSeq, pingHistory, pingHistSeq,
                   pingRuns, multiVars, monVars, cycles, inflight, done, left>>

\* runPing() while pingMonitorInterval is set: it stops the monitor
RunPingToggle ==
    /\ selectedDevice # NoDevice
    /\ pingMonitorInterval # 0
    /\ StopPingMonitorBody
    /\ UNCHANGED <<portVars, netVars, portResultsUi, heap, histSeq, pingHistory, pingHistSeq,
                   pingRuns, multiVars, monVars, cycles, inflight, done, left>>

\* runPing(), up to the await of its first doPing()
RunPingStart ==
    /\ selectedDevice # NoDevice
    /\ pingMonitorInterval = 0
    /\ left.starts["ping"] > 0
    /\ left.cycles["ping"] > 0
    /\ pingHistory' = <<>>
    /\ pingHistSeq' = <<>>
    /\ pingRuns' = Append(pingRuns, [ip |-> selectedDevice, sent |-> 0,
                                     received |-> 0, times |-> <<>>])
    /\ portResultsUi' = "ping"
    /\ DoPing(TRUE, Len(pingRuns'), pingRuns')
    /\ stopped' = [stopped EXCEPT !["ping"] = FALSE]
    /\ left' = [left EXCEPT !.starts["ping"] = @ - 1, !.cycles["ping"] = @ - 1]
    /\ UNCHANGED <<portVars, netVars, heap, histSeq, pingMonitorInterval, multiVars, monVars,
                   timers, done>>

\* an interval timer of runPing fires: the doPing() of its runPing() call
PingTick ==
    \E t \in TimersOf("ping") :
        /\ left.cycles["ping"] > 0
        /\ DoPing(FALSE, t.run, pingRuns)
        /\ left' = [left EXCEPT !.cycles["ping"] = @ - 1]
        /\ UNCHANGED <<portVars, netVars, portResultsUi, heap, histSeq, pingVars, multiVars,
                       monVars, timers, stopped, done>>

\* the invoke("tauri_ping_one") of a doPing() settles; doPing() returns and,
\* for the first one, runPing goes on to setInterval(doPing, 1000)
PingSettle(p, outcome) ==
    LET r   == pingRuns[p.run]
        old == [sent |-> r.sent, received |-> r.received, times |-> r.times,
                history |-> pingHistory, evicted |-> 0]
        new == SettlePing(old, outcome)
        n   == Pushed(new) - Pushed(old)
        c   == AfterSettle(cycles[p.cycle], p, outcome, n)
        pushed == IF n > 0 THEN Append(pingHistSeq, [run |-> p.run, seq |-> p.seq])
                  ELSE pingHistSeq
    IN  /\ pingRuns' = [pingRuns EXCEPT ![p.run] =
                           [ip |-> r.ip, sent |-> new.sent, received |-> new.received,
                            times |-> new.times]]
        /\ pingHistory' = new.history
        /\ pingHistSeq' = IF new.evicted > 0 THEN Tail(pushed) ELSE pushed
        /\ inflight' = inflight \ {p}
        /\ cycles' = Without(cycles, c.id)
        /\ done' = <<Ended(c, "none", ~outcome.thrown)>>
        /\ IF c.first
           THEN /\ timers' = timers \cup {NewTimer("ping", p.run)}
                /\ pingMonitorInterval' = NewTimer("ping", p.run).id
           ELSE UNCHANGED <<timers, pingMonitorInterval>>
        /\ left' = SpendFault(outcome)
        /\ UNCHANGED <<portVars, netVars, portResultsUi, heap, histSeq, multiVars, monVars,
                       stopped>>

PingReturn ==
    \E p \in InFlightOf("ping") : \E outcome \in Outcomes :
        /\ Fault(outcome) => left.faults > 0
        /\ PingSettle(p, outcome)

----------------------------------------------------------------------------
(* Device-grid monitor (the monitor page).                                 *)

\* const batchSize = 5
BatchSize == 5

\* The devices tauri_discover_devices reports to startMonitor.
GridDevices == <<"10.0.1.1", "10.0.1.2", "10.0.1.3", "10.0.1.4", "10.0.1.5", "10.0.1.6">>
GridScanResults == {GridDevices}

\* devices.slice(i, i + batchSize + 1): one key too many
BatchOfOneMore(c) ==
    {c.keys[i] : i \in c.idx..(IF c.idx + BatchSize < Len(c.keys)
                               THEN c.idx + BatchSize ELSE Len(c.keys))}

\* devices.slice(i, i + batchSize) of cycle c
BatchOf(c) ==
    {c.keys[i] : i \in c.idx..(IF c.idx + BatchSize - 1 < Len(c.keys)
                               THEN c.idx + BatchSize - 1 ELSE Len(c.keys))}

\* The keys of the batch whose record monitorDevices.get(ip) finds: their
\* probes are dispatched.  For any other key, data is undefined: data.sent
\* throws inside the try, data.history throws inside the catch, and the
\* async arrow rejects.
Dispatched(c, map) == {k \in BatchOf(c) : MapHas(map, k)}
BatchRejects(c, map) == \E k \in BatchOf(c) : ~MapHas(map, k)

BatchProbes(c, map, objs) ==
    {Probe(c, k, MapGet(map, k), objs[MapGet(map, k)].sent) : k \in Dispatched(c, map)}

WithBatch(c, map) ==
    [c EXCEPT !.pending = Dispatched(c, map),
              !.probed = [k \in DOMAIN @ |-> IF k \in Dispatched(c, map) THEN @[k] + 1 ELSE @[k]]]

\* doPingBatch() of cycle c from its batch at c.idx on, until it awaits a
\* Promise.all, is rejected by one, or has run updateMonitorStats(),
\* renderMonitorCanvas(), renderDeviceGrid() and returned (then, for the first
\* cycle, startMonitor goes on to setInterval(doPingBatch, 2000)); `flying`
\* are the other probes in flight
DoPingBatch(c, map, objs, flying) ==
    IF c.idx > Len(c.keys)
    THEN /\ cycles' = Without(cycles, c.id)
         /\ inflight' = flying
         /\ done' = <<Ended(c, "none", TRUE)>>
         /\ IF c.first
            THEN /\ timers' = timers \cup {NewTimer("monitor", 0)}
                 /\ monitorInterval' = NewTimer("monitor", 0).id
            ELSE UNCHANGED <<timers, monitorInterval>>
    ELSE IF BatchRejects(c, map)
    THEN /\ cycles' = Without(cycles, c.id)
         /\ inflight' = flying \cup BatchProbes(c, map, objs)
         /\ done' = <<Ended(WithBatch(c, map), "nodata", FALSE)>>
         /\ UNCHANGED <<portVars, timers, monitorInterval>>
    ELSE /\ cycles' = (c.id :> WithBatch(c, map)) @@ Without(cycles, c.id)
         /\ inflight' = flying \cup BatchProbes(c, map, objs)
         /\ UNCHANGED <<portVars, done, timers, monitorInterval>>

\* a mutation of StopMonitorBody: with no timer to clear, it arms one
StopMonitorBodyArmsWhenIdle ==
    /\ timers' = IF monitorInterval # 0 THEN ClearInterval(monitorInterval)
                 ELSE timers \cup {NewTimer("monitor", 0)}
    /\ monitorInterval' = IF monitorInterval # 0 THEN 0 ELSE NewTimer("monitor", 0).id
    /\ startBtnShown' = TRUE
    /\ stopped' = [stopped EXCEPT !["monitor"] = TRUE]

\* stopMonitor()
StopMonitorBody ==
    /\ timers' = IF monitorInterval # 0 THEN ClearInterval(monitorInterval) ELSE timers
    /\ monitorInterval' = 0
    /\ startBtnShown' = TRUE
    /\ stopped' = [stopped EXCEPT !["monitor"] = TRUE]

\* click on stopMonitorBtn
StopMonitor ==
    /\ ~startBtnShown
    /\ StopMonitorBody
    /\ UNCHANGED <<portVars, netVars, portResultsUi, heap, histSeq, pingVars, multiVars,
                   monitorDevices, monDiscover, cycles, inflight, done, left>>

\* startMonitor(), up to its await of tauri_discover_devices (a subnet is
\* selected: without one it alerts and returns)
StartMonitor ==
    /\ startBtnShown
    /\ left.starts["monitor"] > 0
    /\ left.cycles["monitor"] > 0
    /\ startBtnShown' = FALSE
    /\ monitorDevices' = <<>>
    /\ monDiscover' = monDiscover + 1
    /\ stopped' = [stopped EXCEPT !["monitor"] = FALSE]
    /\ left' = [left EXCEPT !.starts["monitor"] = @ - 1, !.cycles["monitor"] = @ - 1]
    /\ UNCHANGED <<portVars, netVars, portResultsUi, heap, histSeq, pingVars, multiVars,
                   monitorInterval, timers, cycles, inflight, done>>

\* devices.forEach((d) => monitorDevices.set(d.ip, { ... })): device i gets
\* the record at base + i
RECURSIVE SetAll(_, _, _, _)
SetAll(map, devices, base, i) ==
    IF i > Len(devices) THEN map
    ELSE SetAll(MapSet(map, devices[i], base + i), devices, base, i + 1)

\* startMonitor(), after tauri_discover_devices returned: the records, then
\* the first doPingBatch()
MonitorDiscoverReturn ==
    /\ monDiscover > 0
    /\ \E devices \in GridScanResults :
         /\ monitorDevices' = SetAll(monitorDevices, devices, Len(heap), 1)
         /\ heap' = heap \o [i \in 1..Len(devices) |-> NewData(devices[i])]
         /\ histSeq' = histSeq \o [i \in 1..Len(devices) |-> <<>>]
    /\ monDiscover' = monDiscover - 1
    /\ DoPingBatch(NewCycle("monitor", 0, TRUE, MapKeys(monitorDevices')),
                   monitorDevices', heap', inflight)
    /\ UNCHANGED <<portVars, netVars, portResultsUi, pingVars, multiVars, startBtnShown,
                   stopped, left>>

\* startMonitor(), after tauri_discover_devices threw: stopMonitor(), return
MonitorDiscoverFail ==
    /\ monDiscover > 0
    /\ monDiscover' = monDiscover - 1
    /\ StopMonitorBody
    /\ UNCHANGED <<portVars, netVars, portResultsUi, heap, histSeq, pingVars, multiVars,
                   monitorDevices, cycles, inflight, done, left>>

\* the interval timer of startMonitor fires: doPingBatch()
MonitorTick ==
    /\ TimersOf("monitor") # {}
    /\ left.cycles["monitor"] > 0
    /\ DoPingBatch(NewCycle("monitor", 0, FALSE, MapKeys(monitorDevices)),
                   monitorDevices, heap, inflight)
    /\ left' = [left EXCEPT !.cycles["monitor"] = @ - 1]
    /\ UNCHANGED <<portVars, netVars, portResultsUi, heap, histSeq, pingVars, multiVars,
                   monitorDevices, startBtnShown, monDiscover, stopped>>

\* a mutation of BatchSettled: doPingBatch goes on at the first probe settled
BatchSettledAtFirst(c) == TRUE

\* await Promise.all(batch.map(...)) resolves: every probe of the batch settled
BatchSettled(c) == c.pending = {}

\* one invoke("tauri_ping_one") of doPingBatch settles; when it is the last
\* of its batch, Promise.all resolves and doPingBatch goes on with i += batchSize
MonitorPingSettle(p, outcome) ==
    LET old == heap[p.obj]
        new == SettleBatch(old, outcome)
    IN  /\ heap' = [heap EXCEPT ![p.obj] = new]
        /\ histSeq' = [histSeq EXCEPT ![p.obj] = FollowSeq(@, old, new, p.seq)]
        /\ IF p.cycle \notin DOMAIN cycles
           THEN /\ inflight' = inflight \ {p}
                /\ UNCHANGED <<portVars, cycles, done, timers, monitorInterval>>
           ELSE LET c == AfterSettle(cycles[p.cycle], p, outcome, Pushed(new) - Pushed(old))
                IN  IF TaskRejectsBatch(outcome)
                    THEN /\ cycles' = Without(cycles, c.id)
                         /\ inflight' = inflight \ {p}
                         /\ done' = <<Ended(c, "probe", FALSE)>>
                         /\ UNCHANGED <<portVars, timers, monitorInterval>>
                    ELSE IF ~BatchSettled(c)
                    THEN /\ cycles' = [cycles EXCEPT ![c.id] = c]
                         /\ inflight' = inflight \ {p}
                         /\ UNCHANGED <<portVars, done, timers, monitorInterval>>
                    ELSE DoPingBatch([c EXCEPT !.idx = @ + BatchSize],
                                     monitorDevices, heap', inflight \ {p})
        /\ left' = SpendFault(outcome)
        /\ UNCHANGED <<portVars, netVars, portResultsUi, pingVars, multiVars, monitorDevices,
                       startBtnShown, monDiscover, stopped>>

MonitorPingReturn ==
    \E p \in InFlightOf("monitor") : \E outcome \in Outcomes :
        /\ Fault(outcome) => left.faults > 0
        /\ MonitorPingSettle(p, outcome)

----------------------------------------------------------------------------
(* Local ports page: strings.  A string is the sequence of its characters. *)

UpperLetters == <<"A","B","C","D","E","F","G","H","I","J","K","L","M",
                  "N","O","P","Q","R","S","T","U","V","W","X","Y","Z">>
LowerLetters == <<"a","b","c","d","e","f","g","h","i","j","k","l","m",
                  "n","o","p","q","r","s","t","u","v","w","x","y","z">>
Digits == <<"0","1","2","3","4","5","6","7","8","9">>

\* String.prototype.toLowerCase()
ToLowerCase(str) ==
    [i \in 1..Len(str) |->
        IF \E n \in 1..26 : UpperLetters[n] = str[i]
        THEN LowerLetters[CHOOSE n \in 1..26 : UpperLetters[n] = str[i]]
        ELSE str[i]]

\* String.prototype.trim()
Trim(str) ==
    LET inked == {i \in 1..Len(str) : str[i] # " "}
    IN  IF inked = {} THEN <<>>
        ELSE SubSeq(str, CHOOSE i \in inked : \A j \in inked : i <= j,
                         CHOOSE i \in inked : \A j \in inked : i >= j)

\* String.prototype.includes(sub)
Includes(str, sub) ==
    \E i \in 0..(Len(str) - Len(sub)) : SubSeq(str, i + 1, i + Len(sub)) = sub

\* NaN
NaN == -3

IsDigit(ch) == \E n \in 1..10 : Digits[n] = ch
DigitValue(ch) == (CHOOSE n \in 1..10 : Digits[n] = ch) - 1

RECURSIVE DigitsValue(_, _)
\* the number written by the first n characters of str, all digits
DigitsValue(str, n) ==
    IF n = 0 THEN 0 ELSE 10 * DigitsValue(str, n - 1) + DigitValue(str[n])

\* parseInt(str) of a trimmed, unsigned string: the longest prefix of digits,
\* NaN when there is none
ParseInt(str) ==
    LET n == CHOOSE k \in 0..Len(str) :
                 /\ \A i \in 1..k : IsDigit(str[i])
                 /\ (k < Len(str) => ~IsDigit(str[k + 1]))
    IN  IF n = 0 THEN NaN ELSE DigitsValue(str, n)

\* const systemProcs = ["controlce", "rapportd", "netdisk_s", "mds", "launchd"]
SystemProcs ==
    {<<"c","o","n","t","r","o","l","c","e">>, <<"r","a","p","p","o","r","t","d">>,
     <<"n","e","t","d","i","s","k","_","s">>, <<"m","d","s">>,
     <<"l","a","u","n","c","h","d">>}

----------------------------------------------------------------------------
(* Local ports page: what scanPorts() and scanGrouped() compute.           *)

RECURSIVE SetPorts(_, _, _)
\* for (const p of c.ports) dockerPorts.set(p.host_port, c.name)
SetPorts(map, name, ports) ==
    IF ports = <<>> THEN map
    ELSE SetPorts(MapSet(map, Head(ports), name), name, Tail(ports))

RECURSIVE DockerPortsOf(_, _)
\* for (const c of containers) ..., from the map built so far
DockerPortsOf(map, containers) ==
    IF containers = <<>> THEN map
    ELSE DockerPortsOf(SetPorts(map, Head(containers).name, Head(containers).ports),
                       Tail(containers))

\* a mutation of AppFiltered: only the first match is kept
AppFilteredFirstOnly(entries, text) ==
    LET appFilterValue == ToLowerCase(Trim(text))
        Keep(p) == Includes(ToLowerCase(p.process), appFilterValue)
        kept == SelectSeq(entries, Keep)
    IN  IF appFilterValue # <<>> /\ kept # <<>> THEN <<Head(kept)>> ELSE entries

\* the app-name filter of scanPorts() and scanGrouped()
AppFiltered(entries, text) ==
    LET appFilterValue == ToLowerCase(Trim(text))
        Keep(p) == Includes(ToLowerCase(p.process), appFilterValue)
    IN  IF appFilterValue # <<>> THEN SelectSeq(entries, Keep) ELSE entries

\* the port filter of scanPorts()
PortFiltered(entries, text) ==
    LET portFilterValue == Trim(text)
        portNum == ParseInt(portFilterValue)
        Keep(p) == p.port = portNum
    IN  IF portFilterValue # <<>> /\ portNum # NaN THEN SelectSeq(entries, Keep)
        ELSE entries

\* the system-process filter of scanPorts() and scanGrouped()
SystemFiltered(entries, checked) ==
    LET Keep(p) == ToLowerCase(p.process) \notin SystemProcs
    IN  IF checked THEN SelectSeq(entries, Keep) ELSE entries

\* a mutation of SourceFiltered: "local" drops nothing
SourceFilteredLocalKeepsAll(entries, dockerPorts, source) ==
    LET Docker(p) == MapHas(dockerPorts, p.port)
    IN  IF source = "docker" THEN SelectSeq(entries, Docker) ELSE entries

\* the source filter of scanPorts()
SourceFiltered(entries, dockerPorts, source) ==
    LET Docker(p) == MapHas(dockerPorts, p.port)
        Local(p) == ~MapHas(dockerPorts, p.port)
    IN  IF source = "docker" THEN SelectSeq(entries, Docker)
        ELSE IF source = "local" THEN SelectSeq(entries, Local)
        ELSE entries

\* filteredPorts of scanPorts(), the filters in the order of the code
FilteredPorts(entries, dockerPorts, app, port, checked, source) ==
    SourceFiltered(
        SystemFiltered(PortFiltered(AppFiltered(entries, app), port), checked),
        dockerPorts, source)

\* one row of renderTable(): dockerPorts?.get(p.port), !!dockerContainer (a
\* string is truthy unless empty), the process cell
TableRow(p, dockerPorts) ==
    LET isDocker == MapHas(dockerPorts, p.port) /\ MapGet(dockerPorts, p.port) # <<>>
    IN  [port |-> p.port, isDocker |-> isDocker,
         processDisplay |-> IF isDocker THEN MapGet(dockerPorts, p.port) ELSE p.process]

\* a mutation of RenderTable: port-tbody is not emptied first
RenderTableKeepingRows(entries, showCmd, dockerPorts) ==
    [rows |-> portTable.rows \o
                 [i \in 1..Len(entries) |-> TableRow(entries[i], dockerPorts)],
     showCmd |-> showCmd]

\* renderTable(ports, showCmd, dockerPorts)
RenderTable(entries, showCmd, dockerPorts) ==
    [rows |-> [i \in 1..Len(entries) |-> TableRow(entries[i], dockerPorts)],
     showCmd |-> showCmd]

\* filtered of scanGrouped()
FilteredGroups(groups, app, checked) ==
    SystemFiltered(AppFiltered(groups, app), checked)

----------------------------------------------------------------------------
(* Local ports page: the handlers.                                         *)

\* What tauri_scan_ports can report: a system process, and two processes
\* whose ports containers can publish.
HostInventories ==
    {<<[port |-> 80, process |-> <<"M","d","s">>, pid |-> "1"],
       [port |-> 3000, process |-> <<"n","o","d","e">>, pid |-> "2"],
       [port |-> 8080, process |-> <<"m","d","s">>, pid |-> "3"]>>}

\* What tauri_get_docker_containers can report.
DockerInventories ==
    {<<[name |-> <<"m","d","s">>, ports |-> <<3000>>],
       [name |-> <<"w","e","b">>, ports |-> <<8080>>]>>,
     <<[name |-> <<>>, ports |-> <<3000>>]>>}

\* What tauri_scan_ports_grouped can report.
GroupInventories ==
    {<<[process |-> <<"M","d","s">>, pid |-> "1", ports |-> <<80>>],
       [process |-> <<"n","o","d","e">>, pid |-> "2", ports |-> <<3000>>]>>}

\* texts typed into the app filter and the port filter
AppFilterValues == {<<>>, <<" ","M","D">>}
PortFilterValues == {<<>>, <<"8","0">>, <<"x">>}

\* no scanPorts() / scanGrouped() call is awaiting
IdleScan == [phase |-> "idle", includeCommand |-> FALSE, ports |-> <<>>]

\* the budget after a handler that made `edits` changes of a setting and
\* started `scans` scans
Spend(edits, scans) ==
    [left EXCEPT !.edits = @ - edits, !.portScans = @ - scans]

\* a mutation of ScanPortsCall: without the test of isLoading
ScanPortsCallUnguarded(showCmd, edits) ==
    /\ left.portScans > 0
    /\ isLoading' = TRUE
    /\ portScan' = [phase |-> "host", includeCommand |-> showCmd, ports |-> <<>>]
    /\ left' = Spend(edits, 1)

\* scanPorts(): returns at once while isLoading, else reads showCommand and
\* awaits tauri_scan_ports
ScanPortsCall(showCmd, edits) ==
    IF isLoading
    THEN /\ UNCHANGED <<isLoading, portScan>>
         /\ left' = Spend(edits, 0)
    ELSE /\ left.portScans > 0
         /\ isLoading' = TRUE
         /\ portScan' = [phase |-> "host", includeCommand |-> showCmd, ports |-> <<>>]
         /\ left' = Spend(edits, 1)

\* scanGrouped(): returns at once while isLoading, else awaits
\* tauri_scan_ports_grouped
ScanGroupedCall(edits) ==
    IF isLoading
    THEN /\ UNCHANGED <<isLoading, portScan>>
         /\ left' = Spend(edits, 0)
    ELSE /\ left.portScans > 0
         /\ isLoading' = TRUE
         /\ portScan' = [phase |-> "grouped", includeCommand |-> FALSE, ports |-> <<>>]
         /\ left' = Spend(edits, 1)

\* if (currentView === "table") scanPorts(); else scanGrouped();
ScanCall(view, edits) ==
    IF view = "table" THEN ScanPortsCall(showCommand, edits) ELSE ScanGroupedCall(edits)

\* what no handler of the local ports page touches
otherVars == <<netVars, portResultsUi, heap, histSeq, pingVars, multiVars, monVars,
               timers, cycles, inflight, stopped, done>>

\* click on a segment of source-filter
SourceFilterClick ==
    /\ left.edits > 0
    /\ \E f \in {"all", "local", "docker"} : sourceFilter' = f
    /\ ScanPortsCall(showCommand, 1)
    /\ UNCHANGED <<otherVars, currentView, cachedDockerPorts, appFilter, portFilter,
                   excludeSystem, showCommand, filterTimeout, portTable, groupView,
                   scanLog>>

\* switchPage("local"), and the DOMContentLoaded handler: scanPorts()
SwitchPageLocal ==
    /\ ScanPortsCall(showCommand, 0)
    /\ UNCHANGED <<otherVars, currentView, sourceFilter, cachedDockerPorts, appFilter,
                   portFilter, excludeSystem, showCommand, filterTimeout, portTable,
                   groupView, scanLog>>

\* switchView(view): click on view-table or view-group
SwitchView ==
    /\ left.edits > 0
    /\ \E view \in {"table", "group"} :
          /\ currentView' = view
          /\ ScanCall(view, 1)
    /\ UNCHANGED <<otherVars, sourceFilter, cachedDockerPorts, appFilter, portFilter,
                   excludeSystem, showCommand, filterTimeout, portTable, groupView,
                   scanLog>>

\* click on refresh-btn
RefreshClick ==
    /\ ScanCall(currentView, 0)
    /\ UNCHANGED <<otherVars, currentView, sourceFilter, cachedDockerPorts, appFilter,
                   portFilter, excludeSystem, showCommand, filterTimeout, portTable,
                   groupView, scanLog>>

\* input on app-filter: debouncedScan()
AppFilterInput ==
    /\ left.edits > 0
    /\ \E text \in AppFilterValues \ {appFilter} : appFilter' = text
    /\ filterTimeout' = TRUE
    /\ left' = Spend(1, 0)
    /\ UNCHANGED <<otherVars, isLoading, currentView, sourceFilter, cachedDockerPorts,
                   portFilter, excludeSystem, showCommand, portScan, portTable,
                   groupView, scanLog>>

\* input on port-filter: debouncedScan()
PortFilterInput ==
    /\ left.edits > 0
    /\ \E text \in PortFilterValues \ {portFilter} : portFilter' = text
    /\ filterTimeout' = TRUE
    /\ left' = Spend(1, 0)
    /\ UNCHANGED <<otherVars, isLoading, currentView, sourceFilter, cachedDockerPorts,
                   appFilter, excludeSystem, showCommand, portScan, portTable,
                   groupView, scanLog>>

\* change of exclude-system: debouncedScan()
ExcludeSystemChange ==
    /\ left.edits > 0
    /\ excludeSystem' = ~excludeSystem
    /\ filterTimeout' = TRUE
    /\ left' = Spend(1, 0)
    /\ UNCHANGED <<otherVars, isLoading, currentView, sourceFilter, cachedDockerPorts,
                   appFilter, portFilter, showCommand, portScan, portTable,
                   groupView, scanLog>>

\* the timeout of debouncedScan fires, 200 ms after the last input
DebouncedScanFire ==
    /\ filterTimeout
    /\ filterTimeout' = FALSE
    /\ ScanCall(currentView, 0)
    /\ UNCHANGED <<otherVars, currentView, sourceFilter, cachedDockerPorts, appFilter,
                   portFilter, excludeSystem, showCommand, portTable, groupView,
                   scanLog>>

\* change of show-command: if (currentView === "table") scanPorts()
ShowCommandChange ==
    /\ left.edits > 0
    /\ showCommand' = ~showCommand
    /\ IF currentView = "table"
       THEN ScanPortsCall(showCommand', 1)
       ELSE /\ UNCHANGED <<isLoading, portScan>>
            /\ left' = Spend(1, 0)
    /\ UNCHANGED <<otherVars, currentView, sourceFilter, cachedDockerPorts, appFilter,
                   portFilter, excludeSystem, filterTimeout, portTable, groupView,
                   scanLog>>

\* ghost: scanLog with the call that just ended, the last two kept
Logged(entry) ==
    IF Len(scanLog) < 2 THEN Append(scanLog, entry) ELSE <<scanLog[2], entry>>

\* ghost: a scanPorts() call that ended: what the collaborators returned,
\* the settings it read, what it computed and rendered, how its promise settled
ScanEntry(hostOk, dockerOk, containers, dockerPorts, filtered, rendered, table, promise) ==
    [hostOk |-> hostOk, ports |-> portScan.ports, dockerOk |-> dockerOk,
     containers |-> containers, dockerPorts |-> dockerPorts,
     cachedBefore |-> cachedDockerPorts,
     app |-> appFilter, port |-> portFilter, exclude |-> excludeSystem,
     source |-> sourceFilter, view |-> currentView,
     includeCommand |-> portScan.includeCommand,
     filtered |-> filtered, rendered |-> rendered, table |-> table,
     promise |-> promise]

\* How the promise of scanPorts() settles: its catch takes every error of the
\* try block and rethrows nothing.
ScanPortsPromise(hostOk) == "resolved"

\* portTbody before any renderTable()
NoTable == [rows |-> <<>>, showCmd |-> FALSE]

\* scanPorts(), after tauri_scan_ports returned: awaits the container listing
ScanPortsHostReturn ==
    /\ portScan.phase = "host"
    /\ \E ports \in HostInventories :
          portScan' = [portScan EXCEPT !.phase = "docker", !.ports = ports]
    /\ UNCHANGED <<otherVars, isLoading, currentView, sourceFilter, cachedDockerPorts,
                   appFilter, portFilter, excludeSystem, showCommand, filterTimeout,
                   portTable, groupView, scanLog, left>>

\* scanPorts(), after tauri_scan_ports threw: catch, finally
ScanPortsHostFail ==
    /\ portScan.phase = "host"
    /\ isLoading' = FALSE
    /\ portScan' = IdleScan
    /\ scanLog' = Logged(ScanEntry(FALSE, FALSE, <<>>, <<>>, <<>>, FALSE, NoTable,
                                   ScanPortsPromise(FALSE)))
    /\ UNCHANGED <<otherVars, currentView, sourceFilter, cachedDockerPorts, appFilter,
                   portFilter, excludeSystem, showCommand, filterTimeout, portTable,
                   groupView, left>>

\* a mutation of FailedLookup: the lookup of the previous scan is used
StaleLookup == cachedDockerPorts

\* dockerPorts when tauri_get_docker_containers threw: the new Map(), empty
FailedLookup == <<>>

\* scanPorts() from the end of the container listing to its end: the
\* filters, cachedDockerPorts, renderTable() in the table view, finally
ScanPortsFinish(dockerOk, containers, dockerPorts) ==
    LET filtered == FilteredPorts(portScan.ports, dockerPorts, appFilter, portFilter,
                                  excludeSystem, sourceFilter)
        rendered == currentView = "table"
        table    == IF rendered
                    THEN RenderTable(filtered, portScan.includeCommand, dockerPorts)
                    ELSE NoTable
    IN  /\ cachedDockerPorts' = dockerPorts
        /\ portTable' = IF rendered THEN table ELSE portTable
        /\ isLoading' = FALSE
        /\ portScan' = IdleScan
        /\ scanLog' = Logged(ScanEntry(TRUE, dockerOk, containers, dockerPorts, filtered,
                                       rendered, table, ScanPortsPromise(TRUE)))
        /\ UNCHANGED <<otherVars, currentView, sourceFilter, appFilter, portFilter,
                       excludeSystem, showCommand, filterTimeout, groupView, left>>

\* scanPorts(), after tauri_get_docker_containers returned
ScanPortsDockerReturn ==
    /\ portScan.phase = "docker"
    /\ \E containers \in DockerInventories :
          ScanPortsFinish(TRUE, containers, DockerPortsOf(<<>>, containers))

\* scanPorts(), after tauri_get_docker_containers threw: the inner catch
ScanPortsDockerFail ==
    /\ portScan.phase = "docker"
    /\ ScanPortsFinish(FALSE, <<>>, FailedLookup)

\* scanGrouped(), after tauri_scan_ports_grouped returned: renderGroups()
ScanGroupedReturn ==
    /\ portScan.phase = "grouped"
    /\ \E groups \in GroupInventories :
          groupView' = FilteredGroups(groups, appFilter, excludeSystem)
    /\ isLoading' = FALSE
    /\ portScan' = IdleScan
    /\ UNCHANGED <<otherVars, currentView, sourceFilter, cachedDockerPorts, appFilter,
                   portFilter, excludeSystem, showCommand, filterTimeout, portTable,
                   scanLog, left>>

\* scanGrouped(), after tauri_scan_ports_grouped threw: catch, finally
ScanGroupedFail ==
    /\ portScan.phase = "grouped"
    /\ isLoading' = FALSE
    /\ portScan' = IdleScan
    /\ UNCHANGED <<otherVars, currentView, sourceFilter, cachedDockerPorts, appFilter,
                   portFilter, excludeSystem, showCommand, filterTimeout, portTable,
                   groupView, scanLog, left>>

----------------------------------------------------------------------------
(* Specifications.                                                         *)

Budget ==
    [starts |-> [m \in Monitors |-> MaxStarts],
     cycles |-> [m \in Monitors |->
                    IF m = "ping" THEN MaxPingCycles
                    ELSE IF m = "multi" THEN MaxMultiCycles ELSE MaxMonitorCycles],
     faults |-> MaxFaults,
     scans  |-> MaxScans,
     adds   |-> MaxAdds,
     portScans |-> MaxPortScans,
     edits  |-> MaxEdits]

\* What a behaviour is about: one of the monitors, or manual additions to the
\* device list while the multi-device monitor runs.
Focuses == Monitors \cup {"add", "ports"}

\* The budget of a behaviour about f: only the monitor of f is started (the
\* monitor page needs no device scan of the network tab); with manual
\* additions the monitor is started once and every probe is answered.
FocusBudget(f) ==
    [Budget EXCEPT !.starts = [m \in Monitors |->
                                  IF m = f THEN MaxStarts
                                  ELSE IF f = "add" /\ m = "multi" THEN 1 ELSE 0],
                   !.faults = IF f = "add" THEN 0 ELSE MaxFaults,
                   !.scans = IF f \in {"monitor", "ports"} THEN 0 ELSE MaxScans,
                   !.adds = IF f = "add" THEN MaxAdds ELSE 0,
                   !.portScans = IF f = "ports" THEN MaxPortScans ELSE 0,
                   !.edits = IF f = "ports" THEN MaxEdits ELSE 0]

\* The state after the module has loaded and the settings of the local
\* ports page have been brought to app, port, checked and source, every scan
\* that followed a change having failed.
InitPage(budget, app, port, checked, source) ==
    /\ discoveredDevices = <<>>
    /\ scanBusy = FALSE
    /\ selectedDevice = NoDevice
    /\ resolving = 0
    /\ addLog = <<>>
    /\ portResultsUi = "none"
    /\ heap = <<>>
    /\ histSeq = <<>>
    /\ pingMonitorInterval = 0
    /\ pingHistory = <<>>
    /\ pingHistSeq = <<>>
    /\ pingRuns = <<>>
    /\ multiPingInterval = 0
    /\ multiPingDevices = <<>>
    /\ monitorInterval = 0
    /\ monitorDevices = <<>>
    /\ startBtnShown = TRUE
    /\ monDiscover = 0
    /\ timers = {}
    /\ cycles = <<>>
    /\ inflight = {}
    /\ stopped = [m \in Monitors |-> FALSE]
    /\ done = <<>>
    /\ isLoading = FALSE
    /\ currentView = "table"
    /\ sourceFilter = source
    /\ cachedDockerPorts = <<>>
    /\ appFilter = app
    /\ portFilter = port
    /\ excludeSystem = checked
    /\ showCommand = FALSE
    /\ filterTimeout = FALSE
    /\ portScan = IdleScan
    /\ portTable = NoTable
    /\ groupView = <<>>
    /\ scanLog = <<>>
    /\ left = budget

\* The state after the module has loaded.
InitWith(budget) == InitPage(budget, <<>>, <<>>, FALSE, "all")

Init == InitWith(Budget)

InitAll == \E f \in Focuses : InitWith(FocusBudget(f))

\* cycles of runMultiPing that completed before the first state of SpecFull
Preload == 59

\* The record of a device after Preload cycles that all returned the same
\* positive latency.
Preloaded(ip) ==
    LET ms == CHOOSE t \in Latencies : t > 0
    IN  [ip |-> ip, history |-> [i \in 1..Preload |-> ms], lastMs |-> ms,
         sent |-> Preload, received |-> Preload, evicted |-> 0]

\* The multi-device monitor in mid-run: the devices scanned, runMultiPing
\* started once, Preload cycles completed, none in flight.
InitFull ==
    /\ discoveredDevices = LanDevices
    /\ scanBusy = FALSE
    /\ selectedDevice = NoDevice
    /\ resolving = 0
    /\ addLog = <<>>
    /\ portResultsUi = "multi"
    /\ heap = [i \in 1..Len(LanDevices) |-> Preloaded(LanDevices[i])]
    /\ histSeq = [i \in 1..Len(LanDevices) |-> [j \in 1..Preload |-> j - 1]]
    /\ pingMonitorInterval = 0
    /\ pingHistory = <<>>
    /\ pingHistSeq = <<>>
    /\ pingRuns = <<>>
    /\ multiPingInterval = 1
    /\ multiPingDevices = [i \in 1..Len(LanDevices) |-> [key |-> LanDevices[i], val |-> i]]
    /\ monitorInterval = 0
    /\ monitorDevices = <<>>
    /\ startBtnShown = TRUE
    /\ monDiscover = 0
    /\ timers = {[id |-> 1, mon |-> "multi", run |-> 0]}
    /\ cycles = <<>>
    /\ inflight = {}
    /\ stopped = [m \in Monitors |-> FALSE]
    /\ done = <<>>
    /\ isLoading = FALSE
    /\ currentView = "table"
    /\ sourceFilter = "all"
    /\ cachedDockerPorts = <<>>
    /\ appFilter = <<>>
    /\ portFilter = <<>>
    /\ excludeSystem = FALSE
    /\ showCommand = FALSE
    /\ filterTimeout = FALSE
    /\ portScan = IdleScan
    /\ portTable = NoTable
    /\ groupView = <<>>
    /\ scanLog = <<>>
    /\ left = [Budget EXCEPT !.scans = 0, !.adds = 0, !.portScans = 0, !.edits = 0,
                        !.starts["multi"] = MaxStarts - 1]

\* the latency of the first reply of the run SpecPingFull begins with
SlowMs == 40

\* The single-target ping in mid-run: a device selected, runPing started
\* once, Preload doPing calls completed (the first reply slower than the
\* others), none in flight.
InitPingFull ==
    LET ms == CHOOSE t \in Latencies : t > 0
        replies == [i \in 1..Preload |-> IF i = 1 THEN SlowMs ELSE ms]
    IN  /\ discoveredDevices = LanDevices
        /\ scanBusy = FALSE
        /\ selectedDevice = LanDevices[1]
        /\ resolving = 0
        /\ addLog = <<>>
        /\ portResultsUi = "ping"
        /\ heap = <<>>
        /\ histSeq = <<>>
        /\ pingMonitorInterval = 1
        /\ pingHistory = replies
        /\ pingHistSeq = [j \in 1..Preload |-> [run |-> 1, seq |-> j - 1]]
        /\ pingRuns = <<[ip |-> LanDevices[1], sent |-> Preload, received |-> Preload,
                         times |-> replies]>>
        /\ multiPingInterval = 0
        /\ multiPingDevices = <<>>
        /\ monitorInterval = 0
        /\ monitorDevices = <<>>
        /\ startBtnShown = TRUE
        /\ monDiscover = 0
        /\ timers = {[id |-> 1, mon |-> "ping", run |-> 1]}
        /\ cycles = <<>>
        /\ inflight = {}
        /\ stopped = [m \in Monitors |-> FALSE]
        /\ done = <<>>
        /\ isLoading = FALSE
        /\ currentView = "table"
        /\ sourceFilter = "all"
        /\ cachedDockerPorts = <<>>
        /\ appFilter = <<>>
        /\ portFilter = <<>>
        /\ excludeSystem = FALSE
        /\ showCommand = FALSE
        /\ filterTimeout = FALSE
        /\ portScan = IdleScan
        /\ portTable = NoTable
        /\ groupView = <<>>
        /\ scanLog = <<>>
        /\ left = [Budget EXCEPT !.scans = 0, !.adds = 0, !.portScans = 0, !.edits = 0,
                            !.starts["ping"] = MaxStarts - 1]

NextMulti ==
    \/ DiscoverDevices
    \/ DiscoverDevicesReturn
    \/ DiscoverDevicesFail
    \/ RunMultiPingToggle
    \/ RunMultiPingNoDevices
    \/ RunMultiPingStart
    \/ StopMultiPing
    \/ MultiTick
    \/ MultiPingReturn

NextPing ==
    \/ DiscoverDevices
    \/ DiscoverDevicesReturn
    \/ DiscoverDevicesFail
    \/ SelectDevice
    \/ RunPingToggle
    \/ RunPingStart
    \/ StopPingMonitor
    \/ PingTick
    \/ PingReturn

NextMonitor ==
    \/ StartMonitor
    \/ MonitorDiscoverReturn
    \/ MonitorDiscoverFail
    \/ StopMonitor
    \/ MonitorTick
    \/ MonitorPingReturn

NextFull ==
    \/ RunMultiPingToggle
    \/ RunMultiPingStart
    \/ StopMultiPing
    \/ MultiTick
    \/ MultiPingReturn

\* The local ports page under any setting of its four filters.
InitFilters ==
    \E app \in AppFilterValues, port \in PortFilterValues, checked \in BOOLEAN,
       source \in {"all", "local", "docker"} :
        InitPage([FocusBudget("ports") EXCEPT !.edits = 0], app, port, checked, source)

\* scans of the table view under settings that stay as they are
NextFilters ==
    \/ SwitchPageLocal
    \/ RefreshClick
    \/ ScanPortsHostReturn
    \/ ScanPortsHostFail
    \/ ScanPortsDockerReturn
    \/ ScanPortsDockerFail

NextPingFull ==
    \/ RunPingToggle
    \/ RunPingStart
    \/ StopPingMonitor
    \/ PingTick
    \/ PingReturn

\* the multi-device monitor with manual additions to the device list
NextAdd ==
    \/ DiscoverDevices
    \/ DiscoverDevicesReturn
    \/ DiscoverDevicesFail
    \/ AddManualTarget
    \/ AddManualTargetReturn
    \/ AddManualTargetFail
    \/ RunMultiPingToggle
    \/ RunMultiPingNoDevices
    \/ RunMultiPingStart
    \/ StopMultiPing
    \/ MultiTick
    \/ MultiPingReturn

\* the local ports page
NextPorts ==
    \/ SourceFilterClick
    \/ SwitchPageLocal
    \/ SwitchView
    \/ RefreshClick
    \/ AppFilterInput
    \/ PortFilterInput
    \/ ExcludeSystemChange
    \/ DebouncedScanFire
    \/ ShowCommandChange
    \/ ScanPortsHostReturn
    \/ ScanPortsHostFail
    \/ ScanPortsDockerReturn
    \/ ScanPortsDockerFail
    \/ ScanGroupedReturn
    \/ ScanGroupedFail

Next ==
    \/ DiscoverDevices
    \/ DiscoverDevicesReturn
    \/ DiscoverDevicesFail
    \/ SelectDevice
    \/ AddManualTarget
    \/ AddManualTargetReturn
    \/ AddManualTargetFail
    \/ RunPingToggle
    \/ RunPingStart
    \/ StopPingMonitor
    \/ PingTick
    \/ PingReturn
    \/ RunMultiPingToggle
    \/ RunMultiPingNoDevices
    \/ RunMultiPingStart
    \/ StopMultiPing
    \/ MultiTick
    \/ MultiPingReturn
    \/ StartMonitor
    \/ MonitorDiscoverReturn
    \/ MonitorDiscoverFail
    \/ StopMonitor
    \/ MonitorTick
    \/ MonitorPingReturn
    \/ SourceFilterClick
    \/ SwitchPageLocal
    \/ SwitchView
    \/ RefreshClick
    \/ AppFilterInput
    \/ PortFilterInput
    \/ ExcludeSystemChange
    \/ DebouncedScanFire
    \/ ShowCommandChange
    \/ ScanPortsHostReturn
    \/ ScanPortsHostFail
    \/ ScanPortsDockerReturn
    \/ ScanPortsDockerFail
    \/ ScanGroupedReturn
    \/ ScanGroupedFail

\* one monitor at a time, from the loaded module
SpecPing == Init /\ [][NextPing]_vars
SpecMulti == Init /\ [][NextMulti]_vars
SpecMonitor == Init /\ [][NextMonitor]_vars
SpecAdd == InitWith(FocusBudget("add")) /\ [][NextAdd]_vars
SpecPorts == InitWith(FocusBudget("ports")) /\ [][NextPorts]_vars
\* every action of the program, the starts of a behaviour given to one monitor
Spec == InitAll /\ [][Next]_vars
\* the multi-device monitor from a state with nearly full histories
SpecFull == InitFull /\ [][NextFull]_vars
\* the single-target ping from a state with a nearly full history
SpecPingFull == InitPingFull /\ [][NextPingFull]_vars
\* scanPorts() under every setting of the four filters
SpecFilters == InitFilters /\ [][NextFilters]_vars

----------------------------------------------------------------------------
(* The claims.                                                             *)

\* C1: no history buffer (the history of a device record, pingHistory) ever
\* holds more than 60 samples, whatever the probes returned or threw.
C1_HistoryAtMost60 ==
    /\ \A i \in DOMAIN heap : Len(heap[i].history) <= 60
    /\ Len(pingHistory) <= 60

\* C2: once stop was called (and start not again) and no cycle of that
\* monitor is in flight any more, no probe of that monitor is dispatched.
C2_NoCycleAfterStop ==
    [][\A m \in Monitors :
          (stopped[m] /\ stopped'[m] /\ CyclesOf(m) = {})
              => (InFlightOf(m))' \subseteq InFlightOf(m)]_vars

\* C3: each monitor has at most one active interval timer.
C3_OneLoopPerMonitor ==
    \A m \in Monitors : Cardinality(TimersOf(m)) <= 1

NonDecreasing(seqs) ==
    \A i \in 1..Len(seqs) : \A j \in i..Len(seqs) : seqs[i] <= seqs[j]

\* C4: within one run, the samples of a target's history appear in the order
\* of the sequence numbers of the probes that produced them.
C4_HistoryInSeqOrder ==
    /\ \A i \in DOMAIN histSeq : NonDecreasing(histSeq[i])
    /\ \A i \in 1..Len(pingHistSeq) : \A j \in i..Len(pingHistSeq) :
          pingHistSeq[i].run = pingHistSeq[j].run
              => pingHistSeq[i].seq <= pingHistSeq[j].seq

\* C5: a target of a run never has two probes outstanding.
C5_OneProbePerTarget ==
    \A p, q \in inflight :
        (p.mon = q.mon /\ p.run = q.run /\ p.obj = q.obj /\ p.ip = q.ip) => p = q

\* C6: the device-grid monitor never has more than 5 probes in flight.
C6_AtMostFiveInFlight ==
    Cardinality(InFlightOf("monitor")) <= BatchSize

\* C7: for every device record and every runPing() call, received <= sent
\* and the loss rate shown lies in [0, 100] percent, 0 when sent = 0.
C7_ReceivedAtMostSent ==
    /\ \A i \in DOMAIN heap :
          /\ heap[i].received <= heap[i].sent
          /\ LossRate(heap[i].sent, heap[i].received) \in 0..1000
          /\ heap[i].sent = 0 => LossRate(heap[i].sent, heap[i].received) = 0
    /\ \A r \in DOMAIN pingRuns :
          /\ pingRuns[r].received <= pingRuns[r].sent
          /\ LossRate(pingRuns[r].sent, pingRuns[r].received) \in 0..1000
          /\ pingRuns[r].sent = 0 => LossRate(pingRuns[r].sent, pingRuns[r].received) = 0

\* a device record that lost some probes and not all
C7_Witness ==
    \E i \in DOMAIN heap :
        /\ heap[i].received >= 1
        /\ heap[i].received < heap[i].sent
        /\ LossRate(heap[i].sent, heap[i].received) \in 1..999

\* what the monitors read and show of a device record
Shown(data) ==
    [history |-> data.history, lastMs |-> data.lastMs, sent |-> data.sent,
     received |-> data.received]

\* C8: from any state of a device record, a probe that throws and a probe
\* that returns success = false leave the same history, sent, received and
\* lastMs.
C8_ThrowLikeNoResponse ==
    \A i \in DOMAIN heap :
        Shown(SettleAll(heap[i], Thrown)) = Shown(SettleAll(heap[i], Reply(FALSE, Undefined)))

\* C9: no cycle of doPingAll or doPingBatch is aborted by a probe that
\* failed, and a cycle with a failed probe that ran to its end probed every
\* key, pushed a sample for every key and rendered.
C9_FailureNeverAborts ==
    \A n \in DOMAIN done :
        done[n].mon \in {"multi", "monitor"} =>
            /\ done[n].cause # "probe"
            /\ (done[n].failed # {} /\ done[n].cause = "none") =>
                  /\ done[n].rendered
                  /\ \A k \in DOMAIN done[n].probed :
                        done[n].probed[k] >= 1 /\ done[n].appended[k] >= 1

\* a completed cycle in which one target's probe threw and another's did not
C9_Witness ==
    \E n \in DOMAIN done :
        /\ done[n].mon \in {"multi", "monitor"}
        /\ done[n].cause = "none"
        /\ done[n].rendered
        /\ done[n].failed # {}
        /\ \E k \in DOMAIN done[n].probed : k \notin done[n].failed
        /\ \E i \in DOMAIN heap :
              /\ heap[i].ip \in done[n].failed
              /\ heap[i].sent < Pushed(heap[i])

\* C10: a completed cycle of doPingAll or doPingBatch probed every key it
\* captured exactly once and pushed exactly one sample for it.
C10_ExactlyOncePerCycle ==
    \A n \in DOMAIN done :
        (done[n].mon \in {"multi", "monitor"} /\ done[n].cause = "none") =>
            \A k \in DOMAIN done[n].probed :
                done[n].probed[k] = 1 /\ done[n].appended[k] = 1

\* a completed doPingBatch cycle of more than one batch
C10_Witness ==
    \E n \in DOMAIN done :
        /\ done[n].mon = "monitor"
        /\ done[n].cause = "none"
        /\ Len(done[n].keys) > BatchSize
        /\ done[n].failed # {}

\* C11: a cycle in flight probes only the targets it captured when it began,
\* and every cycle of the multi-device monitor that begins probes every
\* manually added target the device list holds at that moment.
C11_AddedTargetProbedNextCycle ==
    [][/\ \A p \in inflight' :
            p.cycle \in DOMAIN cycles' => p.ip \in Range(cycles'[p.cycle].keys)
       /\ \A id \in DOMAIN cycles' \ DOMAIN cycles :
            cycles'[id].mon = "multi" =>
                \A n \in DOMAIN addLog :
                    addLog[n].ip \in Range(discoveredDevices)
                        => addLog[n].ip \in Range(cycles'[id].keys)]_vars

NoDuplicate(devices) ==
    \A i, j \in 1..Len(devices) : devices[i] = devices[j] => i = j

\* C20: the device list never holds an address twice, and a manual add of an
\* address the list already holds leaves the list as it was.
C20_NoDuplicateAddress ==
    [][/\ NoDuplicate(discoveredDevices')
       /\ (Len(addLog') > Len(addLog) /\ addLog'[Len(addLog')].exists)
              => discoveredDevices' = discoveredDevices]_vars

\* an address was added manually while the device list already held it
C20_Witness ==
    \E n \in DOMAIN addLog :
        /\ addLog[n].exists
        /\ addLog[n].ip \in Range(discoveredDevices)
        /\ Len(discoveredDevices) > 1

\* the step ends a cycle of monitor m with its render calls
FrameOf(m) ==
    /\ \E id \in DOMAIN cycles \ DOMAIN cycles' : cycles[id].mon = m
    /\ Len(done') = 1
    /\ done'[1].rendered

\* C19: a frame rendered at the end of a cycle of doPingAll or doPingBatch
\* shows samples of completed cycles only: in a monitor started once, no
\* cycle still in progress has pushed a sample when the frame is rendered.
C19_FrameOfCompletedCycles ==
    [][\A m \in {"multi", "monitor"} :
          (FrameOf(m) /\ left'.starts[m] = MaxStarts - 1) =>
              \A id \in DOMAIN cycles' :
                  cycles'[id].mon = m =>
                      \A k \in DOMAIN cycles'[id].appended :
                          cycles'[id].appended[k] = 0]_vars

\* the calls of scanLog in which tauri_scan_ports returned
Merged == {n \in DOMAIN scanLog : scanLog[n].hostOk}

\* C12: a row of the table is presented as a container's, named by the
\* container, exactly when its port is a key of the lookup of that scan, and
\* the source filter of that scan agrees with the presentation of every row.
C12_ProvenanceByLookup ==
    \A n \in Merged :
        LET e == scanLog[n]
        IN  e.rendered =>
                \A i \in DOMAIN e.table.rows :
                    LET r == e.table.rows[i]
                    IN  /\ r.isDocker <=> MapHas(e.dockerPorts, r.port)
                        /\ r.isDocker => r.processDisplay = MapGet(e.dockerPorts, r.port)
                        /\ e.source = "docker" => r.isDocker
                        /\ e.source = "local" => ~r.isDocker

\* the displayed identity of an entry: the container name when its port is
\* container-published, else the process name
Identity(p, dockerPorts) ==
    IF MapHas(dockerPorts, p.port) THEN MapGet(dockerPorts, p.port) ELSE p.process

\* C13: with exclude-system checked, the result of a scan is the result of
\* dropping exactly the entries whose displayed identity, lower-cased, is in
\* the deny-list.
C13_ExclusionByIdentity ==
    \A n \in Merged :
        LET e == scanLog[n]
            Keep(p) == ToLowerCase(Identity(p, e.dockerPorts)) \notin SystemProcs
        IN  e.exclude =>
                e.filtered =
                    SourceFiltered(
                        SelectSeq(PortFiltered(AppFiltered(e.ports, e.app), e.port), Keep),
                        e.dockerPorts, e.source)

\* C14: with a non-empty app filter, the result of a scan is the result of
\* keeping exactly the entries whose displayed identity contains the filter
\* text, case-insensitively.
C14_AppFilterByIdentity ==
    \A n \in Merged :
        LET e == scanLog[n]
            text == ToLowerCase(Trim(e.app))
            Keep(p) == Includes(ToLowerCase(Identity(p, e.dockerPorts)), text)
        IN  text # <<>> =>
                e.filtered =
                    SourceFiltered(
                        SystemFiltered(PortFiltered(SelectSeq(e.ports, Keep), e.port),
                                       e.exclude),
                        e.dockerPorts, e.source)

\* what the filters before the source filter leave of the entries of a call
BeforeSource(e) ==
    SystemFiltered(PortFiltered(AppFiltered(e.ports, e.app), e.port), e.exclude)

\* C15: the source filter keeps exactly the entries whose port is a key of
\* the lookup under "docker", exactly the others under "local" and all of
\* them under "all"; the "docker" and "local" results of the same entries
\* are disjoint and together make up the "all" result.
C15_SourceScopeExact ==
    \A n \in Merged :
        LET e == scanLog[n]
            X == BeforeSource(e)
            InLookup(p) == MapHas(e.dockerPorts, p.port)
            NotInLookup(p) == ~MapHas(e.dockerPorts, p.port)
            docker == FilteredPorts(e.ports, e.dockerPorts, e.app, e.port, e.exclude, "docker")
            local  == FilteredPorts(e.ports, e.dockerPorts, e.app, e.port, e.exclude, "local")
            all    == FilteredPorts(e.ports, e.dockerPorts, e.app, e.port, e.exclude, "all")
        IN  /\ e.source = "docker" => e.filtered = SelectSeq(X, InLookup)
            /\ e.source = "local" => e.filtered = SelectSeq(X, NotInLookup)
            /\ e.source = "all" => e.filtered = X
            /\ Range(docker) \cap Range(local) = {}
            /\ Range(docker) \cup Range(local) = Range(all)
            /\ Len(docker) + Len(local) = Len(all)

\* a scan under "docker" or "local" whose source filter kept some entries
\* and dropped others
C15_Witness ==
    \E n \in Merged :
        /\ scanLog[n].source \in {"docker", "local"}
        /\ scanLog[n].filtered # <<>>
        /\ Len(scanLog[n].filtered) < Len(BeforeSource(scanLog[n]))

\* C16: a scanPorts() call whose container listing failed ends normally with
\* an empty lookup: its result is the filtered host entries, rendered in the
\* table view with every row Local and named by its process.
C16_ContainerFailureIsEmpty ==
    \A n \in Merged :
        LET e == scanLog[n]
        IN  ~e.dockerOk =>
                /\ e.promise = "resolved"
                /\ e.dockerPorts = <<>>
                /\ e.filtered = IF e.source = "docker" THEN <<>> ELSE BeforeSource(e)
                /\ e.rendered <=> e.view = "table"
                /\ e.rendered =>
                      /\ Len(e.table.rows) = Len(e.filtered)
                      /\ \A i \in DOMAIN e.table.rows :
                            /\ ~e.table.rows[i].isDocker
                            /\ e.table.rows[i].port = e.filtered[i].port
                            /\ e.table.rows[i].processDisplay = e.filtered[i].process

\* a scan whose container listing failed after an earlier scan had found
\* containers, and that rendered rows
C16_Witness ==
    \E n \in Merged :
        /\ ~scanLog[n].dockerOk
        /\ scanLog[n].cachedBefore # <<>>
        /\ scanLog[n].rendered
        /\ scanLog[n].table.rows # <<>>
        /\ portTable = scanLog[n].table

\* C17: a scanPorts() call whose tauri_scan_ports failed rejects towards its
\* caller and produces no entries.
C17_HostFailurePropagates ==
    \A n \in DOMAIN scanLog :
        ~scanLog[n].hostOk =>
            /\ scanLog[n].promise = "rejected"
            /\ ~scanLog[n].rendered
            /\ scanLog[n].filtered = <<>>

\* what a scanPorts() call reads: the two inventories and the settings
InputsOf(e) ==
    <<e.hostOk, e.ports, e.dockerOk, e.containers, e.app, e.port, e.exclude,
      e.source, e.view, e.includeCommand>>

\* C18: two scanPorts() calls that read the same inventories and the same
\* settings yield the same entries and the same table.
C18_SameInputsSameEntries ==
    \A m, n \in DOMAIN scanLog :
        InputsOf(scanLog[m]) = InputsOf(scanLog[n]) =>
            /\ scanLog[m].filtered = scanLog[n].filtered
            /\ scanLog[m].dockerPorts = scanLog[n].dockerPorts
            /\ scanLog[m].rendered = scanLog[n].rendered
            /\ scanLog[m].table = scanLog[n].table

\* two scans of the same inputs that rendered rows of containers, the second
\* starting from another cachedDockerPorts than the first
C18_Witness ==
    /\ Len(scanLog) = 2
    /\ InputsOf(scanLog[1]) = InputsOf(scanLog[2])
    /\ scanLog[1].cachedBefore # scanLog[2].cachedBefore
    /\ scanLog[2].rendered
    /\ \E i \in DOMAIN scanLog[2].table.rows : scanLog[2].table.rows[i].isDocker

\* C21: no step removes an address from the device list: a target once in
\* it (a manually added one in particular) is in it ever after.
C21_RegistryKeepsTargets ==
    [][Range(discoveredDevices) \subseteq Range(discoveredDevices')]_vars

\* manual adds that were clicked, and those of them whose resolution failed
\* (in a behaviour that began with MaxAdds adds left)
AddsClicked == MaxAdds - left.adds
AddsFailed == AddsClicked - resolving - Len(addLog)

\* C22: a step in which a manual add ends with tauri_resolve_target rejected
\* changes neither the device list nor the selected device, and nor does the
\* click that began the attempt.
C22_ResolveFailureChangesNothing ==
    [][((resolving' = resolving - 1 /\ addLog' = addLog) \/ resolving' = resolving + 1)
          => /\ discoveredDevices' = discoveredDevices
             /\ selectedDevice' = selectedDevice]_vars

\* a manual add failed while the device list held a manually added target
\* and a device was selected
C22_Witness ==
    /\ AddsFailed > 0
    /\ selectedDevice # NoDevice
    /\ \E n \in DOMAIN addLog : addLog[n].ip \in Range(discoveredDevices)

\* the successful samples a history holds, oldest first
Successes(history) ==
    LET Ok(ms) == ms # Null IN SelectSeq(history, Ok)

\* C23: lastMs of a device record is the latency of the most recent
\* successful sample recorded for it (the last one its history holds, when it
\* holds one), and is null only if no successful sample was ever recorded.
C23_LastMsIsLastSuccess ==
    \A i \in DOMAIN heap :
        /\ Successes(heap[i].history) # <<>> =>
              heap[i].lastMs =
                  Successes(heap[i].history)[Len(Successes(heap[i].history))]
        /\ heap[i].lastMs = Null => heap[i].received = 0

\* the keys whose probe failed in the cycle of the probe p that settles in
\* this step: after the step the cycle is still awaiting or is the one in done
FailedAfter(p) ==
    IF p.cycle \in DOMAIN cycles' THEN cycles'[p.cycle].failed ELSE done'[1].failed

\* C24: a probe that returns success = true with a latency L >= 0, L = 0
\* included, is recorded as a successful sample of value L: received grows by
\* one and the sample pushed is a latency, not null, and in doPingAll and
\* doPingBatch lastMs is that latency.
C24_ZeroLatencyIsSuccess ==
    [][\A p \in inflight \ inflight' :
          (p.cycle \in DOMAIN cycles /\ p.ip \notin FailedAfter(p)) =>
              IF p.mon = "ping"
              THEN /\ pingRuns'[p.run].received = pingRuns[p.run].received + 1
                   /\ pingHistory' # <<>>
                   /\ pingHistory'[Len(pingHistory')] \in Latencies
              ELSE /\ heap'[p.obj].received = heap[p.obj].received + 1
                   /\ heap'[p.obj].history # <<>>
                   /\ heap'[p.obj].history[Len(heap'[p.obj].history)] \in Latencies
                   /\ heap'[p.obj].lastMs
                          = heap'[p.obj].history[Len(heap'[p.obj].history)]]_vars

\* the step is a call of the stop function of monitor m
StopCalled(m) ==
    IF m = "ping" THEN StopPingMonitor
    ELSE IF m = "multi" THEN StopMultiPing
    ELSE StopMonitor \/ MonitorDiscoverFail

\* the timer handle of monitor m
Handle(m) ==
    IF m = "ping" THEN pingMonitorInterval
    ELSE IF m = "multi" THEN multiPingInterval
    ELSE monitorInterval

\* C25: a call of stopPingMonitor, stopMultiPing or stopMonitor while the
\* timer handle of its monitor is null leaves the handle null and changes no
\* record, history, counter, timer, cycle or probe.
C25_IdleStopIsNoOp ==
    [][\A m \in Monitors :
          (Handle(m) = 0 /\ StopCalled(m)) =>
              /\ Handle(m)' = 0
              /\ UNCHANGED <<heap, histSeq, pingHistory, pingRuns, multiPingDevices,
                             monitorDevices, timers, cycles, inflight>>]_vars

\* stopMonitor() was called in a monitor that never had a timer: every
\* startMonitor() so far ended in its catch, before any record was made
C25_Witness ==
    /\ stopped["monitor"]
    /\ left.starts["monitor"] < MaxStarts
    /\ monDiscover = 0
    /\ heap = <<>>
    /\ monitorInterval = 0
    /\ startBtnShown

\* C26: for every device record the samples ever pushed onto its history
\* are as many as sent counts, and its history holds min(sent, 60) samples,
\* whatever the probes returned or threw.
C26_AppendedEqualsSent ==
    \A i \in DOMAIN heap :
        /\ Pushed(heap[i]) = heap[i].sent
        /\ Len(heap[i].history) = IF heap[i].sent < 60 THEN heap[i].sent ELSE 60

\* C27: no device record changes in a step after which a probe of the same
\* cycle of doPingAll or doPingBatch is still in flight: the records are
\* written when every probe of the cycle has settled.
C27_WritesAfterCycleSettled ==
    [][\A p \in inflight \ inflight' :
          (/\ p.mon \in {"multi", "monitor"}
           /\ p.cycle \in DOMAIN cycles
           /\ \E q \in inflight' : q.cycle = p.cycle)
              => heap'[p.obj] = heap[p.obj]]_vars

\* the keys a doPingBatch call captured at the positions from..to of its list
KeysAt(c, from, to) == {c.keys[i] : i \in {j \in 1..Len(c.keys) : from <= j /\ j <= to}}

\* C28: in a doPingBatch call that is awaiting, every probe in flight is of
\* the batch it awaits, which is the next 5 keys (or fewer) of the list it
\* captured; every key before that batch was probed once and none after it
\* has been probed.
C28_BatchesInOrder ==
    \A id \in CyclesOf("monitor") :
        LET c == cycles[id]
            batch == KeysAt(c, c.idx, c.idx + 4)
        IN  /\ c.idx \in {1 + 5 * n : n \in 0..Len(c.keys)}
            /\ c.pending \subseteq batch
            /\ Cardinality(batch) <= 5
            /\ \A p \in inflight : p.cycle = id => p.ip \in c.pending
            /\ \A k \in KeysAt(c, 1, c.idx + 4) : c.probed[k] = 1
            /\ \A k \in KeysAt(c, c.idx + 5, Len(c.keys)) : c.probed[k] = 0

\* a doPingBatch call awaiting its second batch, the first one settled with
\* a probe that threw
C28_Witness ==
    \E id \in CyclesOf("monitor") :
        /\ cycles[id].idx > 1
        /\ cycles[id].pending # {}
        /\ cycles[id].failed # {}
        /\ \A k \in KeysAt(cycles[id], 1, cycles[id].idx - 1) :
              cycles[id].appended[k] = 1

\* C29: while one runPing() call has been made, the average ping-avg shows
\* is the average of the successful samples pingHistory holds at that moment
\* (0 when it holds none): a sample evicted from pingHistory does not count.
C29_AverageOverHistory ==
    (Len(pingRuns) = 1 /\ pingRuns[1].sent > 0) =>
        AvgMs(pingRuns[1].times) = AvgMs(Successes(pingHistory))

\* the four filters of scanPorts(), numbered in the order of the code
ApplyFilter(k, entries, dockerPorts, app, port, checked, source) ==
    IF k = 1 THEN AppFiltered(entries, app)
    ELSE IF k = 2 THEN PortFiltered(entries, port)
    ELSE IF k = 3 THEN SystemFiltered(entries, checked)
    ELSE SourceFiltered(entries, dockerPorts, source)

\* the orders in which the four filters can be applied
FilterOrders ==
    {o \in [1..4 -> 1..4] : \A i, j \in 1..4 : o[i] = o[j] => i = j}

\* the entries left by the four filters applied in the order o
FilteredInOrder(o, entries, dockerPorts, app, port, checked, source) ==
    LET F(k, x) == ApplyFilter(o[k], x, dockerPorts, app, port, checked, source)
    IN  F(4, F(3, F(2, F(1, entries))))

\* C30: the entries scanPorts() computes are the entries the four filters
\* leave when applied in any other order, for the entries and the lookup of
\* every scan under every setting of the filters.
C30_FilterOrderIrrelevant ==
    \A n \in Merged :
        LET e == scanLog[n]
        IN  \A o \in FilterOrders :
                FilteredInOrder(o, e.ports, e.dockerPorts, e.app, e.port, e.exclude,
                                e.source) = e.filtered

\* a scan with the four filters set, each of which drops an entry of the
\* scan and keeps another
C30_Witness ==
    \E n \in Merged :
        LET e == scanLog[n]
            Drops(kept) == kept # <<>> /\ Len(kept) < Len(e.ports)
        IN  /\ Drops(AppFiltered(e.ports, e.app))
            /\ Drops(PortFiltered(e.ports, e.port))
            /\ Drops(SystemFiltered(e.ports, e.exclude))
            /\ Drops(SourceFiltered(e.ports, e.dockerPorts, e.source))
            /\ e.rendered

\* the startMonitor() call whose discovery made the device record obj: every
\* discovery that returns makes one record per device of the grid
GridRunOf(obj) == (obj - 1) \div Len(GridDevices)

\* C31: a doPingBatch call probes and writes the records of one run only:
\* when a probe of the call settles and the call dispatches its next batch,
\* the records probed are of the run whose record the settled probe wrote,
\* not of a run started since.
C31_OldCycleKeepsOffNewRun ==
    [][\A p \in inflight \ inflight' : \A q \in inflight' \ inflight :
          (p.mon = "monitor" /\ q.mon = "monitor" /\ q.cycle = p.cycle)
              => GridRunOf(q.obj) = GridRunOf(p.obj)]_vars

\* no value occurs twice in seqs
AllDistinct(seqs) ==
    \A i, j \in 1..Len(seqs) : seqs[i] = seqs[j] => i = j

\* C32: no two probes for the same target of one run carry the same seq,
\* be they in flight or settled, returned or thrown: not two probes in
\* flight, not two samples of a history from which nothing was evicted, not
\* a probe in flight and such a sample.
C32_SeqNeverRepeats ==
    /\ \A p, q \in inflight :
          (p.mon = q.mon /\ p.run = q.run /\ p.obj = q.obj /\ p.seq = q.seq) => p = q
    /\ \A i \in DOMAIN heap :
          heap[i].evicted = 0 =>
              /\ AllDistinct(histSeq[i])
              /\ \A p \in inflight : p.obj = i => p.seq \notin Range(histSeq[i])
    /\ Len(pingHistory) < 60 => AllDistinct(pingHistSeq)

\* no scan is in flight and no debounced scan is pending: nothing more
\* happens on the local ports page until the user acts again
QuietPage == portScan = IdleScan /\ ~filterTimeout

\* C33: once the page is quiet in the table view after a scanPorts() call
\* that got its entries, the table is the one that call rendered, and
\* it was rendered with the show-command setting now in force: no view switch,
\* refresh or show-command change made during a scan is left unserved.
C33_RequestDuringScanIsServed ==
    (QuietPage /\ currentView = "table" /\ scanLog # <<>>
               /\ scanLog[Len(scanLog)].hostOk) =>
        /\ scanLog[Len(scanLog)].rendered
        /\ portTable = scanLog[Len(scanLog)].table
        /\ portTable.showCmd = showCommand

\* a scanPorts() or scanGrouped() call is awaiting
ScanInFlight == portScan.phase # "idle"

\* C34: a scan begins only while none is in flight and isLoading is false;
\* after every step isLoading is true exactly when a scan is in flight; and
\* the step that ends a scan, by success or by failure of a collaborator,
\* leaves isLoading false, so that the next request begins a scan.
C34_IsLoadingIffScanInFlight ==
    [][/\ left'.portScans < left.portScans => (~ScanInFlight /\ ~isLoading)
       /\ isLoading' <=> ScanInFlight'
       /\ (ScanInFlight /\ ~ScanInFlight') => ~isLoading']_vars

\* a scan in flight that began after a scanPorts() call had ended with a
\* collaborator failing
C34_Witness ==
    /\ ScanInFlight
    /\ isLoading
    /\ Len(scanLog) = 2
    /\ ~scanLog[1].hostOk
    /\ scanLog[2].hostOk /\ ~scanLog[2].dockerOk

====
